---- MODULE Spec2Model ----
(***************************************************************************)
(* Model of src/lib/data/export-metadata/export-sql-script.ts:             *)
(* exportBaseSQL and the foreign-key type alignment it runs first.         *)
(*                                                                         *)
(* A Diagram is a record [tables, relationships].  Optional numbers        *)
(* (characterMaximumLength, precision, scale) are naturals with 0 for an   *)
(* absent value and optional strings (default, a name that find(...)?.name *)
(* did not resolve) are "" for an absent value: the code only ever tests   *)
(* them for truthiness, and undefined, 0 and '' are all falsy.             *)
(*                                                                         *)
(* The text in sqlScript is kept as the sequence of statements appended to *)
(* it; each statement keeps, in order, the text chunks the template        *)
(* literals contribute.                                                    *)
(***************************************************************************)
EXTENDS Integers, Sequences, FiniteSets, TLC

VARIABLES
    diagram,        \* the Diagram object passed to exportBaseSQL (mutated in place)
    pc,             \* position inside exportBaseSQL: "idle", "align", "tables", "relationships", "return"
    i,              \* index of the current forEach iteration (1-based)
    nonViewTables,  \* line 19: positions in diagram.tables of the non-view tables (object references)
    sqlScript,      \* line 25: the statements appended so far
    result,         \* value returned by the last completed call
    calls,          \* number of calls of exportBaseSQL started so far
    diagram0        \* history: the Diagram as it was when the current call started

vars == <<diagram, pc, i, nonViewTables, sqlScript, result, calls, diagram0>>

----------------------------------------------------------------------------
(* Bounds of the model *)

MaxRelationships == 2
MaxCalls == 2
MaxIndexFields == 2

----------------------------------------------------------------------------
(* getMySQLDataTypeSize *)

\* String.prototype.toLowerCase on the type strings the model uses.
toLowerCase(type) ==
    CASE type = "FLOAT" -> "float"
      [] type = "BigInt" -> "bigint"
      [] OTHER -> type

\* The object literal of lines 133-144.
MySQLDataTypeSizes ==
    [tinyint |-> 1, smallint |-> 2, mediumint |-> 3, integer |-> 4, bigint |-> 8,
     float |-> 4, double |-> 8, decimal |-> 16, numeric |-> 16]

getMySQLDataTypeSize(type) ==
    IF toLowerCase(type) \in DOMAIN MySQLDataTypeSizes
    THEN MySQLDataTypeSizes[toLowerCase(type)]
    ELSE 0

----------------------------------------------------------------------------
(* Lookups *)

Min(S) == CHOOSE m \in S : \A n \in S : m <= n
Max(S) == CHOOSE m \in S : \A n \in S : m >= n

\* Array.prototype.find by id: position of the first element with that id, 0 for undefined.
find(seq, id) ==
    LET hits == {k \in 1..Len(seq) : seq[k].id = id}
    IN  IF hits = {} THEN 0 ELSE Min(hits)

\* Mutant: the lookup leaves out the views, as nonViewTables.find does.
tableMapGet_nonView(tables, id) ==
    LET hits == {k \in 1..Len(tables) : tables[k].id = id /\ ~tables[k].isView}
    IN  IF hits = {} THEN 0 ELSE Max(hits)

\* tableMap of lines 161-164 followed by tableMap.get(id): Map.set overwrites,
\* so the last table with that id is the one kept; 0 for undefined.
tableMapGet(tables, id) ==
    LET hits == {k \in 1..Len(tables) : tables[k].id = id}
    IN  IF hits = {} THEN 0 ELSE Max(hits)

----------------------------------------------------------------------------
(* alignForeignKeyDataTypes *)

\* Mutant: the assignment reaches every field of the table.
setFieldType_allFields(tables, t, f, type) ==
    [tables EXCEPT ![t].fields = [k \in 1..Len(@) |-> [@[k] EXCEPT !.type = type]]]

\* Assignment to the type of field f of table t (lines 188, 191).
setFieldType(tables, t, f, type) ==
    [tables EXCEPT ![t].fields[f].type = type]

\* Mutant: the two fields exchange their types when the weights differ.
alignRelationship_exchange(tables, relationship) ==
    LET sourceTable == tableMapGet(tables, relationship.sourceTableId)
        targetTable == tableMapGet(tables, relationship.targetTableId)
    IN  IF sourceTable # 0 /\ targetTable # 0
        THEN LET sourceField == find(tables[sourceTable].fields, relationship.sourceFieldId)
                 targetField == find(tables[targetTable].fields, relationship.targetFieldId)
             IN  IF sourceField # 0 /\ targetField # 0
                 THEN LET sourceType == tables[sourceTable].fields[sourceField].type
                          targetType == tables[targetTable].fields[targetField].type
                      IN  IF getMySQLDataTypeSize(sourceType) # getMySQLDataTypeSize(targetType)
                          THEN setFieldType(setFieldType(tables, targetTable, targetField, sourceType),
                                            sourceTable, sourceField, targetType)
                          ELSE tables
                 ELSE tables
        ELSE tables

\* Mutant: line 191 repeats line 188, so a wider target is overwritten with
\* the source's type.
alignRelationship_copyPaste(tables, relationship) ==
    LET sourceTable == tableMapGet(tables, relationship.sourceTableId)
        targetTable == tableMapGet(tables, relationship.targetTableId)
    IN  IF sourceTable # 0 /\ targetTable # 0
        THEN LET sourceField == find(tables[sourceTable].fields, relationship.sourceFieldId)
                 targetField == find(tables[targetTable].fields, relationship.targetFieldId)
             IN  IF sourceField # 0 /\ targetField # 0
                 THEN LET sourceType == tables[sourceTable].fields[sourceField].type
                          targetType == tables[targetTable].fields[targetField].type
                      IN  IF getMySQLDataTypeSize(sourceType) # getMySQLDataTypeSize(targetType)
                          THEN setFieldType(tables, targetTable, targetField, sourceType)
                          ELSE tables
                 ELSE tables
        ELSE tables

\* Mutant: line 186 compares with >=, so a tie overwrites the target.
alignRelationship_tie(tables, relationship) ==
    LET sourceTable == tableMapGet(tables, relationship.sourceTableId)
        targetTable == tableMapGet(tables, relationship.targetTableId)
    IN  IF sourceTable # 0 /\ targetTable # 0
        THEN LET sourceField == find(tables[sourceTable].fields, relationship.sourceFieldId)
                 targetField == find(tables[targetTable].fields, relationship.targetFieldId)
             IN  IF sourceField # 0 /\ targetField # 0
                 THEN LET sourceType == tables[sourceTable].fields[sourceField].type
                          targetType == tables[targetTable].fields[targetField].type
                      IN  IF getMySQLDataTypeSize(sourceType) >= getMySQLDataTypeSize(targetType)
                          THEN setFieldType(tables, targetTable, targetField, sourceType)
                          ELSE setFieldType(tables, sourceTable, sourceField, targetType)
                 ELSE tables
        ELSE tables

\* One iteration of relationships.forEach, lines 167-195: the tables it leaves.
alignRelationship(tables, relationship) ==
    LET sourceTable == tableMapGet(tables, relationship.sourceTableId)
        targetTable == tableMapGet(tables, relationship.targetTableId)
    IN  IF sourceTable # 0 /\ targetTable # 0
        THEN LET sourceField == find(tables[sourceTable].fields, relationship.sourceFieldId)
                 targetField == find(tables[targetTable].fields, relationship.targetFieldId)
             IN  IF sourceField # 0 /\ targetField # 0
                 THEN LET sourceType == tables[sourceTable].fields[sourceField].type
                          targetType == tables[targetTable].fields[targetField].type
                          sourceSize == getMySQLDataTypeSize(sourceType)
                          targetSize == getMySQLDataTypeSize(targetType)
                      IN  IF sourceSize > targetSize
                          THEN setFieldType(tables, targetTable, targetField, sourceType)
                          ELSE IF targetSize > sourceSize
                               THEN setFieldType(tables, sourceTable, sourceField, targetType)
                               ELSE tables
                 ELSE tables
        ELSE tables

\* The whole pass: relationships k..Len in stored order, each on the tables left by the previous.
RECURSIVE alignFrom(_, _, _)
alignFrom(tables, relationships, k) ==
    IF k > Len(relationships)
    THEN tables
    ELSE alignFrom(alignRelationship(tables, relationships[k]), relationships, k + 1)

\* alignForeignKeyDataTypes(diagram), lines 148-196: the Diagram it leaves.
alignForeignKeyDataTypes(d) ==
    IF Len(d.tables) = 0 \/ Len(d.relationships) = 0
    THEN d
    ELSE [d EXCEPT !.tables = alignFrom(d.tables, d.relationships, 1)]

----------------------------------------------------------------------------
(* exportBaseSQL: the statements *)

\* Lines 14 and 151-155: !x || x.length === 0.
isEmpty(seq) == Len(seq) = 0

\* Line 19: tables.filter((table) => !table.isView), as references into tables.
RECURSIVE filterNonView(_, _)
filterNonView(tables, k) ==
    IF k > Len(tables)
    THEN <<>>
    ELSE (IF tables[k].isView THEN <<>> ELSE <<k>>) \o filterNonView(tables, k + 1)

\* A statement of the script.  kind is its leading keywords; the other fields
\* are the values interpolated into its template literal.
Statement(kind, table, name, unique, columns, fieldNames, refTable, refField) ==
    [kind |-> kind, table |-> table, name |-> name, unique |-> unique,
     columns |-> columns, fieldNames |-> fieldNames,
     refTable |-> refTable, refField |-> refField]

\* Lines 34-37: the size of a character type.
lengthClause(field) ==
    IF field.characterMaximumLength # 0
    THEN <<"(" \o ToString(field.characterMaximumLength) \o ")">>
    ELSE <<>>

\* Lines 39-44: precision and scale of a numeric type.
precisionClause(field) ==
    IF field.precision # 0 /\ field.scale # 0
    THEN <<"(" \o ToString(field.precision) \o ", " \o ToString(field.scale) \o ")">>
    ELSE IF field.precision # 0
         THEN <<"(" \o ToString(field.precision) \o ")">>
         ELSE <<>>

\* Lines 46-59: NOT NULL, DEFAULT and PRIMARY KEY.
constraintClauses(field) ==
    (IF ~field.nullable THEN <<" NOT NULL">> ELSE <<>>)
    \o (IF field.default # "" THEN <<" DEFAULT " \o field.default>> ELSE <<>>)
    \o (IF field.primaryKey THEN <<" PRIMARY KEY">> ELSE <<>>)

\* Lines 31-65, one iteration of table.fields.forEach: the column definition.
columnDefinition(table, index) ==
    LET field == table.fields[index]
    IN  [name |-> field.name,
         type |-> field.type,
         clauses |-> lengthClause(field)
                     \o precisionClause(field)
                     \o constraintClauses(field)
                     \o (IF index < Len(table.fields) THEN <<",\n">> ELSE <<>>)]

\* Lines 29-67: the CREATE TABLE block of a table.
createTable(table) ==
    Statement("CREATE TABLE", table.name, "", FALSE,
              [k \in 1..Len(table.fields) |-> columnDefinition(table, k)],
              <<>>, "", "")

\* Mutant: the names are joined without filter(Boolean).
indexFieldNames_unfiltered(table, index) ==
    [k \in 1..Len(index.fieldIds) |->
        IF find(table.fields, index.fieldIds[k]) = 0
        THEN ""
        ELSE table.fields[find(table.fields, index.fieldIds[k])].name]

\* Lines 71-77: index.fieldIds.map(find(...)?.name).filter(Boolean); join keeps the order.
indexFieldNames(table, index) ==
    LET names == [k \in 1..Len(index.fieldIds) |->
                    IF find(table.fields, index.fieldIds[k]) = 0
                    THEN ""
                    ELSE table.fields[find(table.fields, index.fieldIds[k])].name]
        Boolean(name) == name # ""
    IN  SelectSeq(names, Boolean)

\* Lines 70-82, one iteration of table.indexes.forEach.
createIndex(table, index) ==
    LET fieldNames == indexFieldNames(table, index)
    IN  IF fieldNames # <<>>
        THEN <<Statement(IF index.unique THEN "CREATE UNIQUE INDEX" ELSE "CREATE INDEX",
                         table.name, index.name, index.unique, <<>>, fieldNames, "", "")>>
        ELSE <<>>

RECURSIVE createIndexes(_, _)
createIndexes(table, k) ==
    IF k > Len(table.indexes)
    THEN <<>>
    ELSE createIndex(table, table.indexes[k]) \o createIndexes(table, k + 1)

\* Mutant: the indexes of a table are written before its CREATE TABLE block.
emitTable_indexesFirst(table) == createIndexes(table, 1) \o <<createTable(table)>>

\* Lines 28-85, one iteration of nonViewTables.forEach.
emitTable(table) == <<createTable(table)>> \o createIndexes(table, 1)

\* Mutant: the relationship is resolved among all the tables, views included.
findNonViewTable_allTables(tables, nonView, id) ==
    LET hits == {k \in 1..Len(tables) : tables[k].id = id}
    IN  IF hits = {} THEN 0 ELSE Min(hits)

\* nonViewTables.find((table) => table.id === id), lines 89-94: a position in tables, 0 for undefined.
findNonViewTable(tables, nonView, id) ==
    LET hits == {k \in 1..Len(nonView) : tables[nonView[k]].id = id}
    IN  IF hits = {} THEN 0 ELSE nonView[Min(hits)]

\* Lines 88-111, one iteration of relationships?.forEach.
emitRelationship(tables, nonView, relationship) ==
    LET sourceTable == findNonViewTable(tables, nonView, relationship.sourceTableId)
        targetTable == findNonViewTable(tables, nonView, relationship.targetTableId)
        sourceTableField ==
            IF sourceTable = 0 THEN 0
            ELSE find(tables[sourceTable].fields, relationship.sourceFieldId)
        targetTableField ==
            IF targetTable = 0 THEN 0
            ELSE find(tables[targetTable].fields, relationship.targetFieldId)
    IN  IF sourceTable # 0 /\ targetTable # 0 /\ sourceTableField # 0 /\ targetTableField # 0
        THEN <<Statement("ALTER TABLE", tables[sourceTable].name, relationship.name, FALSE,
                         <<>>, <<tables[sourceTable].fields[sourceTableField].name>>,
                         tables[targetTable].name,
                         tables[targetTable].fields[targetTableField].name)>>
        ELSE <<>>

RECURSIVE emitTables(_, _, _)
emitTables(tables, nonView, k) ==
    IF k > Len(nonView)
    THEN <<>>
    ELSE emitTable(tables[nonView[k]]) \o emitTables(tables, nonView, k + 1)

RECURSIVE emitRelationships(_, _, _, _)
emitRelationships(tables, nonView, relationships, k) ==
    IF k > Len(relationships)
    THEN <<>>
    ELSE emitRelationship(tables, nonView, relationships[k])
         \o emitRelationships(tables, nonView, relationships, k + 1)

\* exportBaseSQL(diagram), lines 11-114, as a function: the string it returns.
exportBaseSQL(d) ==
    IF isEmpty(d.tables)
    THEN <<>>
    ELSE LET nonView == filterNonView(d.tables, 1)
             aligned == alignForeignKeyDataTypes(d)
         IN  emitTables(aligned.tables, nonView, 1)
             \o emitRelationships(aligned.tables, nonView, aligned.relationships, 1)

----------------------------------------------------------------------------
(* Diagrams the model starts from *)

Field(id, name, type, characterMaximumLength, precision, scale, nullable, default, primaryKey) ==
    [id |-> id, name |-> name, type |-> type,
     characterMaximumLength |-> characterMaximumLength,
     precision |-> precision, scale |-> scale,
     nullable |-> nullable, default |-> default, primaryKey |-> primaryKey]

Index(name, unique, fieldIds) ==
    [name |-> name, unique |-> unique, fieldIds |-> fieldIds]

Table(id, name, isView, fields, indexes) ==
    [id |-> id, name |-> name, isView |-> isView, fields |-> fields, indexes |-> indexes]

Relationship(name, sourceTableId, sourceFieldId, targetTableId, targetFieldId) ==
    [name |-> name,
     sourceTableId |-> sourceTableId, sourceFieldId |-> sourceFieldId,
     targetTableId |-> targetTableId, targetFieldId |-> targetFieldId]

Diagram(tables, relationships) == [tables |-> tables, relationships |-> relationships]

\* Sequences over S of length at most n.
SeqUpTo(S, n) == UNION {[1..m -> S] : m \in 0..n}

\* Type strings: two without a size (weight 0), smallint (2), integer and FLOAT (both 4).
AlignTypes == {"varchar", "uuid", "smallint", "integer", "FLOAT"}

\* Relationships among users.id, users.manager_id, orders.user_id and
\* orders.product_id, and one from a field its table does not hold.
AlignRelationships ==
    {Relationship("fk_manager", "t1", "f1", "t1", "f2"),
     Relationship("fk_orders_manager", "t1", "f2", "t2", "f1"),
     Relationship("fk_orders_user", "t2", "f1", "t1", "f1"),
     Relationship("fk_orders_product", "t2", "f1", "t2", "f2"),
     Relationship("fk_missing_field", "t2", "f9", "t1", "f2")}

AlignDiagrams ==
    {Diagram(<<Table("t1", "users", FALSE,
                     <<Field("f1", "id", ty1, 0, 0, 0, FALSE, "", TRUE),
                       Field("f2", "manager_id", ty2, 0, 0, 0, TRUE, "", FALSE)>>,
                     <<>>),
               Table("t2", "orders", FALSE,
                     <<Field("f1", "user_id", ty3, 0, 0, 0, FALSE, "", FALSE),
                       Field("f2", "product_id", "integer", 0, 0, 0, FALSE, "", FALSE)>>,
                     <<>>)>>,
             rels) :
        ty1 \in AlignTypes, ty2 \in AlignTypes, ty3 \in AlignTypes,
        rels \in SeqUpTo(AlignRelationships, MaxRelationships)}

\* users(id, name) with one index and orders(user_id) with one index; either may be a view.
EmitTables(usersIsView, ordersIsView, idType, nameField, usersIndex) ==
    <<Table("t1", "users", usersIsView,
            <<Field("f1", "id", idType, 0, 0, 0, FALSE, "", TRUE), nameField>>,
            <<usersIndex>>),
      Table("t2", "orders", ordersIsView,
            <<Field("f1", "user_id", "integer", 0, 0, 0, FALSE, "", FALSE)>>,
            <<Index("idx_orders_user", FALSE, <<"f1">>)>>)>>

NameField == Field("f2", "name", "varchar", 255, 0, 0, FALSE, "", FALSE)

EmitRelationships ==
    {Relationship("fk_orders_user", "t2", "f1", "t1", "f1"),
     Relationship("fk_users_orders", "t1", "f1", "t2", "f1"),
     Relationship("fk_users_self", "t1", "f2", "t1", "f1"),
     Relationship("fk_missing_table", "t2", "f1", "t9", "f1"),
     Relationship("fk_missing_field", "t2", "f1", "t1", "f9")}

\* Every choice of views, of the type of users.id and of the relationships.
RelationshipDiagrams ==
    {Diagram(EmitTables(v1, v2, idType, NameField, Index("idx_users_name", FALSE, <<"f2">>)), rels) :
        v1 \in BOOLEAN, v2 \in BOOLEAN, idType \in {"smallint", "BigInt"},
        rels \in SeqUpTo(EmitRelationships, MaxRelationships)}

\* Every choice of a view flag and of the index of users; "f9" is no field of users.
IndexDiagrams ==
    {Diagram(EmitTables(v1, FALSE, "integer", NameField, Index("idx_users", unique, fieldIds)),
             <<Relationship("fk_orders_user", "t2", "f1", "t1", "f1")>>) :
        v1 \in BOOLEAN, unique \in BOOLEAN,
        fieldIds \in SeqUpTo({"f1", "f2", "f9"}, MaxIndexFields)}

\* Every choice of the optional attributes of users.name.
ColumnDiagrams ==
    {Diagram(EmitTables(FALSE, FALSE, "integer",
                        Field("f2", "name", "varchar", len, precision, scale, nullable, default, pk),
                        Index("idx_users_name", FALSE, <<"f2">>)),
             <<Relationship("fk_orders_user", "t2", "f1", "t1", "f1")>>) :
        len \in {0, 255}, precision \in {0, 10}, scale \in {0, 2},
        nullable \in BOOLEAN, default \in {"", "now()"}, pk \in BOOLEAN}

EmptyDiagram == Diagram(<<>>, <<>>)

----------------------------------------------------------------------------
(* State machine *)

InitWith(diagrams) ==
    /\ diagram \in diagrams
    /\ diagram0 = diagram
    /\ pc = "idle"
    /\ i = 1
    /\ nonViewTables = <<>>
    /\ sqlScript = <<>>
    /\ result = <<>>
    /\ calls = 0

Init == InitWith(RelationshipDiagrams \cup IndexDiagrams \cup ColumnDiagrams \cup {EmptyDiagram})

InitAlign == InitWith(AlignDiagrams)

\* exportBaseSQL is called, lines 11-22: the early return of line 15, or the
\* filter of line 19 and the call of alignForeignKeyDataTypes.
Call ==
    /\ pc = "idle"
    /\ calls < MaxCalls
    /\ calls' = calls + 1
    /\ diagram0' = diagram
    /\ IF isEmpty(diagram.tables)
       THEN /\ result' = <<>>
            /\ UNCHANGED <<diagram, pc, i, nonViewTables, sqlScript>>
       ELSE /\ nonViewTables' = filterNonView(diagram.tables, 1)
            /\ pc' = "align"
            /\ i' = 1
            /\ UNCHANGED <<diagram, sqlScript, result>>

\* Mutant: the relationships are visited from the last to the first.
AlignStep_reversed ==
    /\ pc = "align"
    /\ IF i <= Len(diagram.relationships)
       THEN /\ diagram' = [diagram EXCEPT
                             !.tables = alignRelationship(
                                 diagram.tables,
                                 diagram.relationships[Len(diagram.relationships) + 1 - i])]
            /\ i' = i + 1
            /\ UNCHANGED <<pc, sqlScript>>
       ELSE /\ pc' = "tables"
            /\ i' = 1
            /\ sqlScript' = <<>>
            /\ UNCHANGED diagram
    /\ UNCHANGED <<nonViewTables, result, calls, diagram0>>

\* alignForeignKeyDataTypes, lines 148-196: one relationship of the forEach, or
\* its end (at once when there is no relationship, line 154) and line 25.
AlignStep ==
    /\ pc = "align"
    /\ IF i <= Len(diagram.relationships)
       THEN /\ diagram' = [diagram EXCEPT
                             !.tables = alignRelationship(diagram.tables, diagram.relationships[i])]
            /\ i' = i + 1
            /\ UNCHANGED <<pc, sqlScript>>
       ELSE /\ pc' = "tables"
            /\ i' = 1
            /\ sqlScript' = <<>>
            /\ UNCHANGED diagram
    /\ UNCHANGED <<nonViewTables, result, calls, diagram0>>

\* nonViewTables.forEach, lines 28-85: one table, or the end of the loop.
EmitTable ==
    /\ pc = "tables"
    /\ IF i <= Len(nonViewTables)
       THEN /\ sqlScript' = sqlScript \o emitTable(diagram.tables[nonViewTables[i]])
            /\ i' = i + 1
            /\ UNCHANGED pc
       ELSE /\ pc' = "relationships"
            /\ i' = 1
            /\ UNCHANGED sqlScript
    /\ UNCHANGED <<diagram, nonViewTables, result, calls, diagram0>>

\* relationships?.forEach, lines 88-111: one relationship, or the end of the loop.
EmitRelationship ==
    /\ pc = "relationships"
    /\ IF i <= Len(diagram.relationships)
       THEN /\ sqlScript' = sqlScript
                            \o emitRelationship(diagram.tables, nonViewTables, diagram.relationships[i])
            /\ i' = i + 1
            /\ UNCHANGED pc
       ELSE /\ pc' = "return"
            /\ i' = 1
            /\ UNCHANGED sqlScript
    /\ UNCHANGED <<diagram, nonViewTables, result, calls, diagram0>>

\* Line 113: return sqlScript.
Return ==
    /\ pc = "return"
    /\ result' = sqlScript
    /\ pc' = "idle"
    /\ UNCHANGED <<diagram, i, nonViewTables, sqlScript, calls, diagram0>>

Next == Call \/ AlignStep \/ EmitTable \/ EmitRelationship \/ Return

Spec == Init /\ [][Next]_vars

SpecAlign == InitAlign /\ [][Next]_vars

----------------------------------------------------------------------------
(* Vocabulary of the properties *)

\* A field, as <<position of its table, position in the table's fields>>.
FieldRefs(d) ==
    UNION {{<<t, f>> : f \in 1..Len(d.tables[t].fields)} : t \in 1..Len(d.tables)}

TypeOf(d, ref) == d.tables[ref[1]].fields[ref[2]].type

WeightOf(d, ref) == getMySQLDataTypeSize(TypeOf(d, ref))

\* The fields a table id and a field id name (none, or one since ids are unique).
Named(d, tableId, fieldId) ==
    UNION {{<<t, f>> : f \in {g \in 1..Len(d.tables[t].fields) : d.tables[t].fields[g].id = fieldId}} :
              t \in {u \in 1..Len(d.tables) : d.tables[u].id = tableId}}

Resolves(d, r) ==
    /\ Named(d, r.sourceTableId, r.sourceFieldId) # {}
    /\ Named(d, r.targetTableId, r.targetFieldId) # {}

SourceOf(d, r) == CHOOSE ref \in Named(d, r.sourceTableId, r.sourceFieldId) : TRUE
TargetOf(d, r) == CHOOSE ref \in Named(d, r.targetTableId, r.targetFieldId) : TRUE

Endpoints(d, r) == {SourceOf(d, r), TargetOf(d, r)}

\* The relationships of d, by position, whose two fields resolve.
ResolvedRelationships(d) ==
    {k \in 1..Len(d.relationships) : Resolves(d, d.relationships[k])}

\* The type alignment of the current call has run to its end.
PassDone == calls > 0 /\ pc # "align"

\* The current call has returned.
Returned == calls > 0 /\ pc = "idle"

\* Some field's type differs between d and e.
TypesDiffer(d, e) == \E ref \in FieldRefs(d) : TypeOf(d, ref) # TypeOf(e, ref)

----------------------------------------------------------------------------
(* C1: idempotence of the type alignment *)

\* C1: a second run of alignForeignKeyDataTypes, on the Diagram a first run
\* left, changes no Field.type.
C1_Idempotent ==
    (calls >= 2 /\ PassDone) => ~TypesDiffer(diagram, diagram0)

\* No field is an endpoint of two different resolving relationships of d.
DisjointRelationships(d) ==
    \A j \in ResolvedRelationships(d) : \A k \in ResolvedRelationships(d) :
        j # k => Endpoints(d, d.relationships[j]) \cap Endpoints(d, d.relationships[k]) = {}

\* C1 (amended): in a Diagram where no field is an endpoint of two different
\* resolving relationships, a second run changes no Field.type.
C1_IdempotentWhenDisjoint ==
    (calls >= 2 /\ PassDone /\ DisjointRelationships(diagram0))
        => ~TypesDiffer(diagram, diagram0)

\* A second run has ended on a Diagram with two disjoint resolving
\* relationships, one of which joined fields of different weights.
C1_Witness ==
    /\ calls = 2 /\ PassDone
    /\ DisjointRelationships(diagram0)
    /\ Cardinality(ResolvedRelationships(diagram0)) = 2
    /\ \E ref \in FieldRefs(diagram) : TypeOf(diagram, ref) = "FLOAT"
    /\ \A ref \in FieldRefs(diagram) : WeightOf(diagram, ref) = 4

----------------------------------------------------------------------------
(* C3: what a whole pass leaves for each relationship *)

PostCondition(before, after, r) ==
    LET source == SourceOf(before, r)
        target == TargetOf(before, r)
    IN  /\ WeightOf(before, source) > WeightOf(before, target)
            => TypeOf(after, target) = TypeOf(before, source)
        /\ WeightOf(before, target) > WeightOf(before, source)
            => TypeOf(after, source) = TypeOf(before, target)
        /\ WeightOf(before, source) = WeightOf(before, target)
            => /\ TypeOf(after, source) = TypeOf(before, source)
               /\ TypeOf(after, target) = TypeOf(before, target)

\* C3: after the pass, every resolving relationship has its narrower field
\* set to the type the wider one had before the pass, and both unchanged if
\* the weights were equal.
C3_PostCondition ==
    PassDone =>
        \A k \in ResolvedRelationships(diagram0) :
            PostCondition(diagram0, diagram, diagram0.relationships[k])

\* Relationship k shares no field with another resolving relationship of d.
Isolated(d, k) ==
    \A j \in ResolvedRelationships(d) :
        j # k => Endpoints(d, d.relationships[j]) \cap Endpoints(d, d.relationships[k]) = {}

\* C3 (amended): the post-condition holds for every resolving relationship
\* whose two fields are endpoints of no other resolving relationship.
C3_PostConditionWhenIsolated ==
    PassDone =>
        \A k \in ResolvedRelationships(diagram0) :
            Isolated(diagram0, k)
                => PostCondition(diagram0, diagram, diagram0.relationships[k])

\* A pass has ended that widened the target of one isolated relationship and
\* the source of another.
C3_Witness ==
    /\ PassDone
    /\ \E j \in ResolvedRelationships(diagram0) : \E k \in ResolvedRelationships(diagram0) :
        LET rj == diagram0.relationships[j]
            rk == diagram0.relationships[k]
        IN  /\ Isolated(diagram0, j) /\ Isolated(diagram0, k)
            /\ WeightOf(diagram0, SourceOf(diagram0, rj)) > WeightOf(diagram0, TargetOf(diagram0, rj))
            /\ TypeOf(diagram, TargetOf(diagram0, rj)) = TypeOf(diagram0, SourceOf(diagram0, rj))
            /\ WeightOf(diagram0, TargetOf(diagram0, rk)) > WeightOf(diagram0, SourceOf(diagram0, rk))
            /\ TypeOf(diagram, SourceOf(diagram0, rk)) = TypeOf(diagram0, TargetOf(diagram0, rk))

----------------------------------------------------------------------------
(* C8: one forward pass in stored order *)

\* The tables left by the first n relationships, each applied to what the
\* previous ones left.
AlignedPrefix(tables, relationships, n) ==
    alignFrom(tables, SubSeq(relationships, 1, n), 1)

\* r1 joins A to B and r2 joins B to C, three different fields of d with
\* weight(C) > weight(B) >= weight(A).
Chain(d, r1, r2) ==
    /\ Resolves(d, r1) /\ Resolves(d, r2)
    /\ SourceOf(d, r2) = TargetOf(d, r1)
    /\ Cardinality({SourceOf(d, r1), TargetOf(d, r1), TargetOf(d, r2)}) = 3
    /\ WeightOf(d, TargetOf(d, r2)) > WeightOf(d, TargetOf(d, r1))
    /\ WeightOf(d, TargetOf(d, r1)) >= WeightOf(d, SourceOf(d, r1))

\* C8: during the pass, relationship k is evaluated on the types relationships
\* 1..k-1 left, once each in stored order.  With R1 = (A, B) then R2 = (B, C)
\* and weight(C) > weight(B) >= weight(A), B ends with C's type and A with what
\* R1 left it (not C's type); with R2 then R1 all three end with C's type.
C8_SingleForwardPass ==
    /\ pc = "align" =>
        /\ i \in 1..(Len(diagram.relationships) + 1)
        /\ diagram.tables = AlignedPrefix(diagram0.tables, diagram0.relationships, i - 1)
    /\ (PassDone /\ Len(diagram0.relationships) = 2) =>
        LET first == diagram0.relationships[1]
            second == diagram0.relationships[2]
        IN  /\ Chain(diagram0, first, second) =>
                LET a == SourceOf(diagram0, first)
                    b == TargetOf(diagram0, first)
                    c == TargetOf(diagram0, second)
                IN  /\ TypeOf(diagram, b) = TypeOf(diagram0, c)
                    /\ TypeOf(diagram, a) =
                           TypeOf([diagram0 EXCEPT !.tables = AlignedPrefix(diagram0.tables, <<first>>, 1)], a)
                    /\ TypeOf(diagram, a) # TypeOf(diagram0, c)
            /\ Chain(diagram0, second, first) =>
                LET a == SourceOf(diagram0, second)
                    b == TargetOf(diagram0, second)
                    c == TargetOf(diagram0, first)
                IN  /\ TypeOf(diagram, a) = TypeOf(diagram0, c)
                    /\ TypeOf(diagram, b) = TypeOf(diagram0, c)
                    /\ TypeOf(diagram, c) = TypeOf(diagram0, c)

\* A pass over R1 = (A, B), R2 = (B, C) has ended with A widened to B's old
\* type and B to C's.
C8_Witness ==
    /\ PassDone /\ Len(diagram0.relationships) = 2
    /\ Chain(diagram0, diagram0.relationships[1], diagram0.relationships[2])
    /\ LET a == SourceOf(diagram0, diagram0.relationships[1])
           b == TargetOf(diagram0, diagram0.relationships[1])
           c == TargetOf(diagram0, diagram0.relationships[2])
       IN  /\ WeightOf(diagram0, b) > WeightOf(diagram0, a)
           /\ TypeOf(diagram, a) = TypeOf(diagram0, b)
           /\ TypeOf(diagram, b) = TypeOf(diagram0, c)

----------------------------------------------------------------------------
(* C9: the pass never narrows a field and introduces no type string *)

TypesIn(d) == {TypeOf(d, ref) : ref \in FieldRefs(d)}

\* C9: at every step of the pass each field's weight is at least the weight
\* it had before the pass and its type is a type string some field had before
\* the pass; a step on two fields of equal weight leaves both type strings.
C9_NeverNarrows ==
    LET before == TypesIn(diagram0)
    IN  /\ \A ref \in FieldRefs(diagram) :
            /\ WeightOf(diagram, ref) >= WeightOf(diagram0, ref)
            /\ TypeOf(diagram, ref) \in before
        /\ \A k \in ResolvedRelationships(diagram) :
            LET r == diagram.relationships[k]
            IN  WeightOf(diagram, SourceOf(diagram, r)) = WeightOf(diagram, TargetOf(diagram, r))
                    => alignRelationship(diagram.tables, r) = diagram.tables

\* In the middle of a pass that has widened a field, a relationship joins an
\* integer field and a FLOAT field.
C9_Witness ==
    /\ pc = "align"
    /\ TypesDiffer(diagram, diagram0)
    /\ \E k \in ResolvedRelationships(diagram) :
        LET r == diagram.relationships[k]
        IN  /\ k >= i
            /\ TypeOf(diagram, SourceOf(diagram, r)) = "integer"
            /\ TypeOf(diagram, TargetOf(diagram, r)) = "FLOAT"

----------------------------------------------------------------------------
(* Vocabulary of the properties on the script *)

\* The statements of script of the given kinds, in order.
OfKind(script, kinds) ==
    LET Wanted(statement) == statement.kind \in kinds
    IN  SelectSeq(script, Wanted)

IndexKinds == {"CREATE INDEX", "CREATE UNIQUE INDEX"}

NamesOf(statements) == [k \in 1..Len(statements) |-> statements[k].name]

\* The table of d with that name (names are unique in the Diagrams used).
TableNamed(d, name) == CHOOSE t \in 1..Len(d.tables) : d.tables[t].name = name

\* The non-view tables of d, by position, in the order of d.tables.
NonViewPositions(d) ==
    LET IsTable(t) == ~d.tables[t].isView
    IN  SelectSeq([t \in 1..Len(d.tables) |-> t], IsTable)

\* Both tables of r are non-view tables of d and both fields resolve in them.
ResolvesAmongNonViews(d, r) ==
    /\ Resolves(d, r)
    /\ ~d.tables[SourceOf(d, r)[1]].isView
    /\ ~d.tables[TargetOf(d, r)[1]].isView

\* seq is sub with elements inserted: sub's elements appear in seq in order.
RECURSIVE IsSubsequence(_, _)
IsSubsequence(sub, seq) ==
    IF sub = <<>> THEN TRUE
    ELSE IF seq = <<>> THEN FALSE
    ELSE IF Head(sub) = Head(seq) THEN IsSubsequence(Tail(sub), Tail(seq))
    ELSE IsSubsequence(sub, Tail(seq))

----------------------------------------------------------------------------
(* C2: the size clause of a column definition *)

\* Every text a size clause can take for the lengths, precisions and scales used.
SizeClauses ==
    {"(" \o ToString(n) \o ")" : n \in {2, 10, 255}}
    \cup {"(" \o ToString(p) \o ", " \o ToString(q) \o ")" : p \in {10, 255}, q \in {2, 10}}

SizeClausesOf(column) ==
    LET IsSize(clause) == clause \in SizeClauses
    IN  SelectSeq(column.clauses, IsSize)

\* The one size clause the field is to carry, or none.
ExpectedSizeClause(field) ==
    IF field.characterMaximumLength # 0
    THEN <<"(" \o ToString(field.characterMaximumLength) \o ")">>
    ELSE IF field.precision # 0 /\ field.scale # 0
    THEN <<"(" \o ToString(field.precision) \o ", " \o ToString(field.scale) \o ")">>
    ELSE IF field.precision # 0
    THEN <<"(" \o ToString(field.precision) \o ")">>
    ELSE <<>>

\* C2: each column definition carries exactly the length clause when
\* characterMaximumLength is set, whether or not precision and scale are set;
\* otherwise (precision, scale), or (precision), or no size clause.
C2_OneSizeClause ==
    Returned =>
        \A k \in 1..Len(result) :
            result[k].kind = "CREATE TABLE" =>
                LET table == diagram.tables[TableNamed(diagram, result[k].table)]
                IN  \A f \in 1..Len(table.fields) :
                        SizeClausesOf(result[k].columns[f]) = ExpectedSizeClause(table.fields[f])

----------------------------------------------------------------------------
(* C4: order of the statements *)

\* The table whose block most recently precedes position k of script.
BlockBefore(script, k) ==
    script[Max({j \in 1..k : script[j].kind = "CREATE TABLE"})].table

\* C4: every ALTER TABLE statement comes after every CREATE TABLE and CREATE
\* INDEX statement; the CREATE TABLE blocks follow the order of the non-view
\* tables; each index statement lies between its table's block and the next
\* block; the ALTER TABLE statements follow the order of the relationships.
C4_Ordering ==
    /\ \A j \in 1..Len(sqlScript) : \A k \in 1..Len(sqlScript) :
        (j < k /\ sqlScript[j].kind = "ALTER TABLE") => sqlScript[k].kind = "ALTER TABLE"
    /\ \A k \in 1..Len(sqlScript) :
        sqlScript[k].kind \in IndexKinds =>
            /\ \E j \in 1..k : sqlScript[j].kind = "CREATE TABLE"
            /\ BlockBefore(sqlScript, k) = sqlScript[k].table
    /\ (Returned /\ diagram.tables # <<>>) =>
        /\ result = sqlScript
        /\ [k \in 1..Len(OfKind(result, {"CREATE TABLE"})) |-> OfKind(result, {"CREATE TABLE"})[k].table]
             = [k \in 1..Len(NonViewPositions(diagram)) |-> diagram.tables[NonViewPositions(diagram)[k]].name]
        /\ IsSubsequence(NamesOf(OfKind(result, {"ALTER TABLE"})), NamesOf(diagram.relationships))

\* A script was returned with two blocks, an index after each, and two
\* different ALTER TABLE statements.
C4_Witness ==
    /\ Returned
    /\ Len(OfKind(result, {"CREATE TABLE"})) = 2
    /\ Len(OfKind(result, IndexKinds)) = 2
    /\ Len(OfKind(result, {"ALTER TABLE"})) = 2
    /\ OfKind(result, {"ALTER TABLE"})[1].name # OfKind(result, {"ALTER TABLE"})[2].name

----------------------------------------------------------------------------
(* C5: relationships that do not resolve are skipped *)

\* The first n relationships of d that satisfy Keep, in order.
KeptPrefix(d, n, Keep(_, _)) ==
    LET Kept(r) == Keep(d, r)
    IN  SelectSeq(SubSeq(d.relationships, 1, n), Kept)

\* Relationships handled so far by the loop the call is in.
Handled(loop) ==
    IF pc = loop THEN i - 1 ELSE Len(diagram.relationships)

\* C5: the script holds one ALTER TABLE statement for each relationship that
\* resolves among the non-view tables, in order, and none for any other; in
\* the alignment and in the emission a relationship that does not resolve
\* changes nothing and the relationships after it are still handled.
C5_LenientSkip ==
    /\ pc \in {"relationships", "return"} =>
        NamesOf(OfKind(sqlScript, {"ALTER TABLE"}))
            = NamesOf(KeptPrefix(diagram, Handled("relationships"), ResolvesAmongNonViews))
    /\ (Returned /\ diagram.tables # <<>>) =>
        NamesOf(OfKind(result, {"ALTER TABLE"}))
            = NamesOf(KeptPrefix(diagram, Len(diagram.relationships), ResolvesAmongNonViews))
    /\ (calls > 0 /\ diagram.tables # <<>>) =>
        diagram.tables
            = alignFrom(diagram0.tables, KeptPrefix(diagram0, Handled("align"), Resolves), 1)

\* A script was returned for a Diagram whose first relationship ends in a
\* view and widened users.id, and whose second resolves among the non-view
\* tables.
C5_Witness ==
    /\ Returned
    /\ Len(diagram.relationships) = 2
    /\ Resolves(diagram, diagram.relationships[1])
    /\ ~ResolvesAmongNonViews(diagram, diagram.relationships[1])
    /\ ResolvesAmongNonViews(diagram, diagram.relationships[2])
    /\ TypesDiffer(diagram, diagram0)
    /\ NamesOf(OfKind(result, {"ALTER TABLE"})) = <<diagram.relationships[2].name>>

----------------------------------------------------------------------------
(* C6: index statements *)

\* The names of the fields of table that the fieldIds of index name, in order.
ResolvableNames(table, index) ==
    LET Known(fieldId) == \E f \in 1..Len(table.fields) : table.fields[f].id = fieldId
        known == SelectSeq(index.fieldIds, Known)
    IN  [k \in 1..Len(known) |->
            (CHOOSE field \in {table.fields[f] : f \in 1..Len(table.fields)} :
                field.id = known[k]).name]

\* The <<kind, name, table, field names>> of the index statements d is to have.
RECURSIVE ExpectedIndexes(_, _, _)
ExpectedIndexes(d, t, k) ==
    IF t > Len(d.tables) THEN <<>>
    ELSE IF d.tables[t].isView \/ k > Len(d.tables[t].indexes)
    THEN ExpectedIndexes(d, t + 1, 1)
    ELSE LET table == d.tables[t]
             index == table.indexes[k]
         IN  (IF ResolvableNames(table, index) = <<>>
              THEN <<>>
              ELSE << <<IF index.unique THEN "CREATE UNIQUE INDEX" ELSE "CREATE INDEX",
                        index.name, table.name, ResolvableNames(table, index)>> >>)
             \o ExpectedIndexes(d, t, k + 1)

----------------------------------------------------------------------------
(* C7: what a call may change in the Diagram *)

\* d and e are the same Diagram but for the types of their fields.
SameButTypes(d, e) ==
    /\ d.relationships = e.relationships
    /\ Len(d.tables) = Len(e.tables)
    /\ \A t \in 1..Len(d.tables) :
        /\ [d.tables[t] EXCEPT !.fields = <<>>] = [e.tables[t] EXCEPT !.fields = <<>>]
        /\ Len(d.tables[t].fields) = Len(e.tables[t].fields)
        /\ \A f \in 1..Len(d.tables[t].fields) :
            [d.tables[t].fields[f] EXCEPT !.type = ""] = [e.tables[t].fields[f] EXCEPT !.type = ""]

\* The fields that end a relationship of d whose two fields resolve.
RelatedFields(d) ==
    UNION {Endpoints(d, d.relationships[k]) : k \in ResolvedRelationships(d)}

\* C7: a step of exportBaseSQL creates and removes nothing and changes no
\* attribute but Field.type; it changes a type only while the alignment runs
\* and only of a field that ends a relationship with both fields resolved;
\* the steps after the alignment change nothing in the Diagram.
C7_Frame ==
    [][/\ SameButTypes(diagram, diagram')
       /\ pc # "align" => diagram' = diagram
       /\ \A ref \in FieldRefs(diagram) :
            TypeOf(diagram', ref) # TypeOf(diagram, ref) => ref \in RelatedFields(diagram)
      ]_vars

\* A call returned a script with an index statement and an ALTER TABLE
\* statement after its alignment changed a type, in a Diagram that also holds
\* a relationship that does not resolve.
C7_Witness ==
    /\ Returned
    /\ TypesDiffer(diagram, diagram0)
    /\ \E k \in 1..Len(diagram.relationships) : ~Resolves(diagram, diagram.relationships[k])
    /\ OfKind(result, IndexKinds) # <<>>
    /\ OfKind(result, {"ALTER TABLE"}) # <<>>

----------------------------------------------------------------------------
(* C10: a relationship to a view *)

\* r joins a field of a non-view table of d to a heavier field of a view of d.
ToHeavierView(d, r) ==
    /\ Resolves(d, r)
    /\ \E own \in Endpoints(d, r) : \E other \in Endpoints(d, r) :
        /\ ~d.tables[own[1]].isView
        /\ d.tables[other[1]].isView
        /\ WeightOf(d, other) > WeightOf(d, own)

OwnField(d, r) == CHOOSE own \in Endpoints(d, r) : ~d.tables[own[1]].isView
ViewField(d, r) == CHOOSE other \in Endpoints(d, r) : d.tables[other[1]].isView

\* The column definition of field ref of d in script.
ColumnOf(script, d, ref) ==
    (CHOOSE statement \in {script[k] : k \in 1..Len(script)} :
        /\ statement.kind = "CREATE TABLE"
        /\ statement.table = d.tables[ref[1]].name).columns[ref[2]]

\* C10: a relationship between a field of a non-view table and a heavier
\* field of a view gives no ALTER TABLE statement, yet the CREATE TABLE block
\* carries the view field's type for that field, and the script differs from
\* the script of the same Diagram without the relationship.
C10_ViewRelationship ==
    (Returned /\ Len(diagram0.relationships) = 1
              /\ ToHeavierView(diagram0, diagram0.relationships[1])) =>
        LET r == diagram0.relationships[1]
        IN  /\ OfKind(result, {"ALTER TABLE"}) = <<>>
            /\ ColumnOf(result, diagram0, OwnField(diagram0, r)).type
                   = TypeOf(diagram0, ViewField(diagram0, r))
            /\ ColumnOf(result, diagram0, OwnField(diagram0, r)).type
                   # TypeOf(diagram0, OwnField(diagram0, r))
            /\ result # exportBaseSQL([diagram0 EXCEPT !.relationships = <<>>])

\* A script was returned for a Diagram whose only relationship joins
\* users.id, a smallint, to the integer field of the view orders.
C10_Witness ==
    /\ Returned /\ Len(diagram0.relationships) = 1
    /\ ToHeavierView(diagram0, diagram0.relationships[1])
    /\ TypeOf(diagram0, OwnField(diagram0, diagram0.relationships[1])) = "smallint"
    /\ Len(result) = 2

====
